---- MODULE Spec2Model ----
(***************************************************************************)
(* A model of storm_analysis/dbscan/clusters_sa_h5py.py: the SAH5Clusters  *)
(* sub-class of SAH5Py that stores clusters in the "clusters" group of an  *)
(* HDF5 file and joins them back against the localizations / tracks.       *)
(*                                                                         *)
(* numpy arrays are sequences (Python position p is sequence index p + 1), *)
(* the Python dict cluster_data is a sequence of [field, data] items in    *)
(* insertion order, an h5py group is [attrs, groups] or [attrs, datasets]  *)
(* with functions from names to values, and a returned dict is a function  *)
(* from field names to arrays.                                             *)
(***************************************************************************)
EXTENDS Integers, Sequences, FiniteSets, TLC

VARIABLES
    hasTracks,  \* the record store: does the file hold tracks (else localizations)
    groups,     \* the record store: per frame / per track group, its records
    hdf5,       \* the top level of the file: a function on {} or {"clusters"}
    op,         \* the method called last
    args,       \* its arguments
    raised,     \* the exception it raised, or NoError
    ret         \* what it returned (the message, when it raised)

vars == <<hasTracks, groups, hdf5, op, args, raised, ret>>

(***************************************************************************)
(* Bounds of the model.                                                    *)
(***************************************************************************)
MaxGroups == 2       \* frames (or track groups) in the file
MaxRecords == 2      \* localizations (or tracks) in the file
MaxClusterId == 1    \* cluster ids are -1 .. MaxClusterId
MaxMinSize == 1      \* min_size arguments are 0 .. MaxMinSize

ClusterIds == -1 .. MaxClusterId

NoError == "none"
None == "None"
EmptyDict == [k \in {} |-> k]

(***************************************************************************)
(* Python / numpy helpers.                                                 *)
(***************************************************************************)
Zeros(n) == [p \in 1..n |-> 0]

Arange(n) == [p \in 1..n |-> p - 1]

Amin(arr) == CHOOSE v \in {arr[p] : p \in DOMAIN arr} :
                 \A w \in {arr[p] : p \in DOMAIN arr} : v <= w

Amax(arr) == CHOOSE v \in {arr[p] : p \in DOMAIN arr} :
                 \A w \in {arr[p] : p \in DOMAIN arr} : v >= w

CountNonzero(mask) == Cardinality({p \in DOMAIN mask : mask[p]})

\* arr[mask] with a boolean mask: the elements at the True positions, in order.
RECURSIVE BoolIndexFrom(_, _, _)
BoolIndexFrom(arr, mask, p) ==
    IF p > Len(mask) THEN <<>>
    ELSE (IF mask[p] THEN <<arr[p]>> ELSE <<>>) \o BoolIndexFrom(arr, mask, p + 1)

BoolIndexInverted(arr, mask) ==
    BoolIndexFrom(arr, [p \in DOMAIN mask |-> ~mask[p]], 1)

BoolIndex(arr, mask) == BoolIndexFrom(arr, mask, 1)

\* arr[start:end] = vals, with vals an array of end - start elements.
SliceAssign(arr, start, end, vals) ==
    [p \in 1..Len(arr) |-> IF start < p /\ p <= end THEN vals[p - start] ELSE arr[p]]

\* arr[start:end] = v, with v a scalar.
SliceFill(arr, start, end, v) ==
    [p \in 1..Len(arr) |-> IF start < p /\ p <= end THEN v ELSE arr[p]]

Scale(arr, k) == [p \in 1..Len(arr) |-> arr[p] * k]

\* A Python dict in insertion order.
DictKeys(d) == {d[j].field : j \in DOMAIN d}

DictGet(d, k) == d[CHOOSE j \in DOMAIN d : d[j].field = k].data

(***************************************************************************)
(* The record store (SAH5Py, the super-class).                             *)
(***************************************************************************)
StoreFields == {"x", "y", "z", "category"}

\* The record at offset o (from 0) of frame / track group g (from 0): known,
\* pairwise different field values.
Record(g, o) ==
    [x |-> 11 + 10 * g + o, y |-> 41 + 10 * g + o, z |-> 71 + 10 * g + o,
     category |-> (g + o) % 2]

RECURSIVE SumSizes(_)
SumSizes(sizes) == IF sizes = <<>> THEN 0 ELSE Head(sizes) + SumSizes(Tail(sizes))

RECURSIVE SizeLists(_)
SizeLists(n) ==
    IF n = 0 THEN {<<>>}
    ELSE {Append(s, k) : s \in SizeLists(n - 1), k \in 0..MaxRecords}

\* The files: localization files may hold empty frames, every track group
\* holds at least one track.
Stores ==
    {[tracks |-> t, sizes |-> s] :
        t \in BOOLEAN,
        s \in {s \in UNION {SizeLists(n) : n \in 1..MaxGroups} : SumSizes(s) <= MaxRecords}}

StoreOk(st) == st.tracks => \A j \in DOMAIN st.sizes : st.sizes[j] >= 1

GroupsOf(sizes) ==
    [g \in 1..Len(sizes) |-> [o \in 1..sizes[g] |-> Record(g - 1, o - 1)]]

getPixelSize == 100

getNTracks(grps) == SumSizes([g \in 1..Len(grps) |-> Len(grps[g])])

getNLocalizations(grps) == SumSizes([g \in 1..Len(grps) |-> Len(grps[g])])

\* The fields argument: None asks for every field.
AllFields == [given |-> FALSE, names |-> <<>>]

Fields(names) == [given |-> TRUE, names |-> names]

FieldSet(fields) ==
    IF fields.given THEN {fields.names[j] : j \in DOMAIN fields.names} ELSE StoreFields

\* getLocalizationsInFrame(frame, fields) and getTracksByIndex(index, fields):
\* the requested fields of every record of the group, as arrays.
GroupData(grps, g, fields) ==
    IF g + 1 \in DOMAIN grps
    THEN [f \in FieldSet(fields) |-> [o \in 1..Len(grps[g + 1]) |-> grps[g + 1][o][f]]]
    ELSE EmptyDict

getLocalizationsInFrame(grps, frame, fields) == GroupData(grps, frame, fields)

getTracksByIndex(grps, index, fields) == GroupData(grps, index, fields)

(***************************************************************************)
(* getDataForClustering                                                    *)
(***************************************************************************)
\* for i, tracks in enumerate(self.tracksIterator(fields = [...])): one pass
\* per track group, in index order.
RECURSIVE TracksLoop(_, _, _, _, _)
TracksLoop(grps, i, start, ignore_z, acc) ==
    IF i >= Len(grps) THEN acc
    ELSE LET tracks == getTracksByIndex(grps, i, Fields(<<"x", "y", "z", "category">>))
             n_tracks == Len(tracks["x"])
             end == start + n_tracks
         IN TracksLoop(grps, i + 1, start + n_tracks, ignore_z,
                [loc_id |-> SliceAssign(acc.loc_id, start, end, Arange(n_tracks)),
                 track_id |-> SliceFill(acc.track_id, start, end, i),
                 x |-> SliceAssign(acc.x, start, end, Scale(tracks["x"], getPixelSize)),
                 y |-> SliceAssign(acc.y, start, end, Scale(tracks["y"], getPixelSize)),
                 z |-> IF ignore_z THEN acc.z
                       ELSE SliceAssign(acc.z, start, end, Scale(tracks["z"], 1000)),
                 c |-> SliceAssign(acc.c, start, end, tracks["category"])])

\* for f_num, locs in self.localizationsIterator(fields = fields): one pass
\* per frame that holds localizations, in frame order.
RECURSIVE LocsLoop(_, _, _, _, _)
LocsLoop(grps, f_num, start, ignore_z, acc) ==
    IF f_num >= Len(grps) THEN acc
    ELSE IF Len(grps[f_num + 1]) = 0 THEN LocsLoop(grps, f_num + 1, start, ignore_z, acc)
    ELSE LET fields == IF ignore_z THEN Fields(<<"x", "y", "category">>)
                       ELSE Fields(<<"x", "y", "category", "z">>)
             locs == getLocalizationsInFrame(grps, f_num, fields)
             n_locs == Len(locs["x"])
             end == start + n_locs
         IN LocsLoop(grps, f_num + 1, start + n_locs, ignore_z,
                [frame |-> SliceFill(acc.frame, start, end, f_num),
                 loc_id |-> SliceAssign(acc.loc_id, start, end, Arange(n_locs)),
                 x |-> SliceAssign(acc.x, start, end, Scale(locs["x"], getPixelSize)),
                 y |-> SliceAssign(acc.y, start, end, Scale(locs["y"], getPixelSize)),
                 z |-> IF ignore_z THEN acc.z
                       ELSE SliceAssign(acc.z, start, end, Scale(locs["z"], 1000)),
                 c |-> SliceAssign(acc.c, start, end, locs["category"])])

\* Returns <<x, y, z, c, cluster_data>>; tracks is self.hasTracks().
getDataForClustering(tracks, grps, ignore_z) ==
    IF tracks
    THEN LET total_tracks == getNTracks(grps)
             r == TracksLoop(grps, 0, 0, ignore_z,
                      [loc_id |-> Zeros(total_tracks), track_id |-> Zeros(total_tracks),
                       x |-> Zeros(total_tracks), y |-> Zeros(total_tracks),
                       z |-> Zeros(total_tracks), c |-> Zeros(total_tracks)])
         IN <<r.x, r.y, r.z, r.c,
              <<[field |-> "loc_id", data |-> r.loc_id],
                [field |-> "track_id", data |-> r.track_id]>> >>
    ELSE LET total_locs == getNLocalizations(grps)
             r == LocsLoop(grps, 0, 0, ignore_z,
                      [frame |-> Zeros(total_locs), loc_id |-> Zeros(total_locs),
                       x |-> Zeros(total_locs), y |-> Zeros(total_locs),
                       z |-> Zeros(total_locs), c |-> Zeros(total_locs)])
         IN <<r.x, r.y, r.z, r.c,
              <<[field |-> "frame", data |-> r.frame],
                [field |-> "loc_id", data |-> r.loc_id]>> >>

(***************************************************************************)
(* The clusters group.                                                     *)
(***************************************************************************)
getClusterName(index) == "cl_" \o ToString(index)

hasClusters(h) == "clusters" \in DOMAIN h

EmptyGroup == [attrs |-> EmptyDict, groups |-> EmptyDict]

DelItem(h, name) == [n \in DOMAIN h \ {name} |-> h[n]]

CreateGroup(h, name) == (name :> EmptyGroup) @@ h

\* require_group in place of del and create_group.
RequireGroup(h) == IF hasClusters(h) THEN h ELSE CreateGroup(h, "clusters")

\* Lines 35-38: delete off the clustering information, if any, and create
\* the "clusters" group.
DeleteAndCreate(h) ==
    CreateGroup(IF hasClusters(h) THEN DelItem(h, "clusters") ELSE h, "clusters")

\* The first field of cluster_data, in dict order, whose size is not that of
\* cluster_id (0 when there is none).
FirstBadField(cluster_id, cluster_data) ==
    LET bad == {j \in DOMAIN cluster_data : Len(cluster_data[j].data) # Len(cluster_id)}
    IN IF bad = {} THEN 0 ELSE CHOOSE j \in bad : \A k \in bad : j <= k

NewClusterGroupUnmasked(cluster_data, cl_mask, cl_size) ==
    [attrs |-> [cl_size |-> cl_size],
     datasets |-> [f \in DictKeys(cluster_data) |-> DictGet(cluster_data, f)]]

\* One cluster group: a dataset per field of cluster_data and the cl_size
\* attribute.
NewClusterGroup(cluster_data, cl_mask, cl_size) ==
    [attrs |-> [cl_size |-> cl_size],
     datasets |-> [f \in DictKeys(cluster_data) |->
                      BoolIndex(DictGet(cluster_data, f), cl_mask)]]

\* Lines 45-46: the ids the loop runs over are start .. end - 1.
RangeStart(cluster_id) == Amin(cluster_id)

RangeEndInclusive(cluster_id) == Amax(cluster_id)

RangeEnd(cluster_id) == Amax(cluster_id) + 1

\* Line 62: the first 'cluster' holds what was not assigned to a cluster.
CountWithFirst(n_clusters) == n_clusters

ClusterCount(n_clusters) == n_clusters - 1

\* for i in range(start, end): ...
RECURSIVE AddLoop(_, _, _, _, _, _)
AddLoop(clusters_grp, i, end, n_clusters, cluster_id, cluster_data) ==
    IF i >= end THEN [grp |-> clusters_grp, n_clusters |-> n_clusters]
    ELSE LET cl_mask == [p \in 1..Len(cluster_id) |-> cluster_id[p] = i]
             cl_size == CountNonzero(cl_mask)
         IN IF cl_size > 0
            THEN AddLoop([clusters_grp EXCEPT !.groups =
                             (getClusterName(n_clusters) :>
                                 NewClusterGroup(cluster_data, cl_mask, cl_size)) @@ @],
                         i + 1, end, n_clusters + 1, cluster_id, cluster_data)
            ELSE AddLoop(clusters_grp, i + 1, end, n_clusters, cluster_id, cluster_data)

\* addClusters(cluster_id, cluster_data): the file after the call, the
\* exception raised and the value returned.
addClusters(h, cluster_id, cluster_data) ==
    LET h2 == DeleteAndCreate(h)
        bad == FirstBadField(cluster_id, cluster_data)
    IN IF bad # 0
       THEN [hdf5 |-> h2, raised |-> "AssertionError",
             ret |-> "Incorrect size for data " \o cluster_data[bad].field]
       ELSE IF Len(cluster_id) = 0
       THEN [hdf5 |-> h2, raised |-> "ValueError",
             ret |-> "zero-size array to reduction operation minimum which has no identity"]
       ELSE LET start == RangeStart(cluster_id)
                end == RangeEnd(cluster_id)
                r == AddLoop(h2["clusters"], start, end, 0, cluster_id, cluster_data)
            IN [hdf5 |-> [h2 EXCEPT !["clusters"] =
                            [r.grp EXCEPT !.attrs = ("n_clusters" :> ClusterCount(r.n_clusters)) @@ @]],
                raised |-> NoError, ret |-> None]

(***************************************************************************)
(* Reading the clusters back.                                              *)
(***************************************************************************)
\* What a method hands back: the exception it raised (or NoError) and its
\* value.  The value None of getClusterGroup is <<>>, a group g is <<g>>.
Raise(exc, msg) == [raised |-> exc, ret |-> msg]

Return(v) == [raised |-> NoError, ret |-> v]

\* self.hdf5["clusters"]
getClusters(h) ==
    IF hasClusters(h) THEN Return(h["clusters"]) ELSE Raise("KeyError", "clusters")

getClusterGroup(h, index) ==
    LET cl_name == getClusterName(index)
        clusters == getClusters(h)
    IN IF clusters.raised # NoError THEN clusters
       ELSE IF cl_name \in DOMAIN clusters.ret.groups
       THEN Return(<<clusters.ret.groups[cl_name]>>)
       ELSE Return(<<>>)

\* for field in group: cl_dict[field] = group[field][()]
getCluster(group) ==
    IF group = <<>> THEN Raise("TypeError", "'NoneType' object is not iterable")
    ELSE Return(group[1].datasets)

getNClusters(h) ==
    LET clusters == getClusters(h)
    IN IF clusters.raised # NoError THEN clusters
       ELSE IF "n_clusters" \in DOMAIN clusters.ret.attrs
       THEN Return(clusters.ret.attrs["n_clusters"])
       ELSE Raise("KeyError", "n_clusters")

getClusteringInfo(h) ==
    LET clusters == getClusters(h)
    IN IF clusters.raised # NoError THEN clusters
       ELSE IF "info" \in DOMAIN clusters.ret.attrs
       THEN Return(clusters.ret.attrs["info"])
       ELSE Raise("KeyError", "info")

\* setClusteringInfo creating the group it does not find.
setClusteringInfoCreating(h, info) ==
    LET h1 == RequireGroup(h)
    IN [hdf5 |-> [h1 EXCEPT !["clusters"].attrs = ("info" :> info) @@ @],
        raised |-> NoError, ret |-> None]

\* The file after setClusteringInfo(info), and what the call hands back.
setClusteringInfo(h, info) ==
    LET clusters == getClusters(h)
    IN IF clusters.raised # NoError
       THEN [hdf5 |-> h, raised |-> clusters.raised, ret |-> clusters.ret]
       ELSE [hdf5 |-> [h EXCEPT !["clusters"].attrs = ("info" :> info) @@ @],
             raised |-> NoError, ret |-> None]

JoinElementFirst(locs, field, cl_dict, i) == locs[field][1]

\* locs[field][cl_dict["loc_id"][i]], tracks[field][cl_dict["loc_id"][i]]
JoinElement(locs, field, cl_dict, i) == locs[field][cl_dict["loc_id"][i + 1] + 1]

\* The two loops of getClusterData, lines 136-145 with key = "frame" and
\* the store read by frame, lines 149-157 with key = "track_id" and the
\* store read by track group: for i in range(cl_size): ...
RECURSIVE JoinLoop(_, _, _, _, _, _, _)
JoinLoop(grps, cl_dict, key, fields, cl_size, i, cl) ==
    IF i >= cl_size THEN cl
    ELSE LET locs == IF key = "frame"
                     THEN getLocalizationsInFrame(grps, cl_dict[key][i + 1], fields)
                     ELSE getTracksByIndex(grps, cl_dict[key][i + 1], fields)
             cl1 == IF cl = EmptyDict THEN [f \in DOMAIN locs |-> Zeros(cl_size)] ELSE cl
             cl2 == [f \in DOMAIN cl1 |->
                       [cl1[f] EXCEPT ![i + 1] = JoinElement(locs, f, cl_dict, i)]]
         IN JoinLoop(grps, cl_dict, key, fields, cl_size, i + 1, cl2)

getClusterData(h, grps, index, fields) ==
    LET cl_grp == getClusterGroup(h, index)
        got == IF cl_grp.raised # NoError THEN cl_grp ELSE getCluster(cl_grp.ret)
    IN IF got.raised # NoError THEN got
       ELSE LET cl_dict == got.ret
                key == IF "frame" \in DOMAIN cl_dict THEN "frame" ELSE "track_id"
            IN IF cl_dict = EmptyDict THEN Return(EmptyDict)
               ELSE IF key \notin DOMAIN cl_dict THEN Raise("KeyError", key)
               ELSE IF Len(cl_dict[key]) > 0 /\ "loc_id" \notin DOMAIN cl_dict
               THEN Raise("KeyError", "loc_id")
               ELSE LET cl == JoinLoop(grps, cl_dict, key, fields,
                                       Len(cl_dict[key]), 0, EmptyDict)
                    \* Also add the cluster data arrays: cl[field] = cl_dict[field].
                    IN Return(cl_dict @@ cl)

SizeAtLeast(cl_size, min_size) == cl_size >= min_size

\* if (cl_grp.attrs['cl_size'] > min_size):
SizeOk(cl_size, min_size) == cl_size > min_size

\* for i in range(start, self.getNClusters() + 1): ... yield [i, ...]
RECURSIVE IteratorLoop(_, _, _, _, _, _, _)
IteratorLoop(h, grps, fields, min_size, i, end, yielded) ==
    IF i >= end THEN Return(yielded)
    ELSE LET cl_grp == getClusterGroup(h, i)
         IN IF cl_grp.raised # NoError THEN cl_grp
            ELSE IF cl_grp.ret = <<>>
            THEN Raise("AttributeError", "'NoneType' object has no attribute 'attrs'")
            ELSE IF SizeOk(cl_grp.ret[1].attrs["cl_size"], min_size)
            THEN LET data == getClusterData(h, grps, i, fields)
                 IN IF data.raised # NoError THEN data
                    ELSE IteratorLoop(h, grps, fields, min_size, i + 1, end,
                                      Append(yielded, <<i, data.ret>>))
            ELSE IteratorLoop(h, grps, fields, min_size, i + 1, end, yielded)

\* Everything the iterator yields when it is run to its end.
clustersIterator(h, grps, fields, min_size, skip_unclustered) ==
    IF ~hasClusters(h) THEN Return(<<>>)
    ELSE LET start == IF ~skip_unclustered THEN 0 ELSE 1
             n == getNClusters(h)
         IN IF n.raised # NoError THEN n
            ELSE IteratorLoop(h, grps, fields, min_size, start, n.ret + 1, <<>>)

(***************************************************************************)
(* The calls.                                                              *)
(***************************************************************************)
\* The cluster_id arrays: one id per record of the file.
Assignments(n) == [1..n -> ClusterIds]

\* The cluster_data dicts of the right size a caller passes: what
\* getDataForClustering returned, alone or with the positions in nanometers
\* as further data ("other data that should be associated with each
\* cluster").
SizedDatas(tracks, grps) ==
    LET d == getDataForClustering(tracks, grps, TRUE)
    IN {d[5], Append(d[5], [field |-> "x", data |-> d[1]])}

\* The cluster_data dicts of a wrong size: the last array a record too
\* long, or every array a record too short.
IllSizedDatas(tracks, grps) ==
    LET d == getDataForClustering(tracks, grps, TRUE)
    IN {Append(d[5], [field |-> "x", data |-> Append(d[1], 0)])}
       \cup (IF Len(d[1]) > 0
             THEN {[j \in 1..2 |-> [d[5][j] EXCEPT !.data = Tail(@)]]}
             ELSE {})

\* The arguments of the addClusters calls: every cluster_id array with
\* every dict of the right size, and, the size check reading no id, one
\* cluster_id array with every dict of a wrong size.
ClusterArgs(tracks, grps) ==
    LET n == IF tracks THEN getNTracks(grps) ELSE getNLocalizations(grps)
    IN (Assignments(n) \X SizedDatas(tracks, grps))
       \cup ({Zeros(n)} \X IllSizedDatas(tracks, grps))

Init ==
    /\ \E st \in Stores :
          /\ StoreOk(st)
          /\ hasTracks = st.tracks
          /\ groups = GroupsOf(st.sizes)
    /\ hdf5 = EmptyDict
    /\ op = "open"
    /\ args = EmptyDict
    /\ raised = NoError
    /\ ret = None

AddClustersCall ==
    \E a \in ClusterArgs(hasTracks, groups) :
        \E r \in {addClusters(hdf5, a[1], a[2])} :
            /\ hdf5' = r.hdf5
            /\ raised' = r.raised
            /\ ret' = r.ret
            /\ op' = "addClusters"
            /\ args' = [cluster_id |-> a[1], cluster_data |-> a[2]]
            /\ UNCHANGED <<hasTracks, groups>>

Indices == 0 .. MaxRecords

FieldChoices == {AllFields, Fields(<<"x", "category">>)}

Infos == {"dbscan", "voronoi"}

\* A call that leaves the file as it is.
Read(name, a, result) ==
    \E r \in {result} :
        /\ op' = name
        /\ args' = a
        /\ raised' = r.raised
        /\ ret' = r.ret
        /\ UNCHANGED <<hasTracks, groups, hdf5>>

SetClusteringInfoCall ==
    \E info \in Infos :
        \E r \in {setClusteringInfo(hdf5, info)} :
            /\ hdf5' = r.hdf5
            /\ raised' = r.raised
            /\ ret' = r.ret
            /\ op' = "setClusteringInfo"
            /\ args' = [info |-> info]
            /\ UNCHANGED <<hasTracks, groups>>

GetClusteringInfoCall == Read("getClusteringInfo", EmptyDict, getClusteringInfo(hdf5))

GetNClustersCall == Read("getNClusters", EmptyDict, getNClusters(hdf5))

HasClustersCall == Read("hasClusters", EmptyDict, Return(hasClusters(hdf5)))

GetClusterGroupCall ==
    \E index \in Indices :
        Read("getClusterGroup", [index |-> index], getClusterGroup(hdf5, index))

GetClusterDataCall ==
    \E index \in Indices, fields \in FieldChoices :
        Read("getClusterData", [index |-> index, fields |-> fields],
             getClusterData(hdf5, groups, index, fields))

ClustersIteratorCall ==
    \E fields \in FieldChoices, min_size \in 0..MaxMinSize, skip_unclustered \in BOOLEAN :
        Read("clustersIterator",
             [fields |-> fields, min_size |-> min_size,
              skip_unclustered |-> skip_unclustered],
             clustersIterator(hdf5, groups, fields, min_size, skip_unclustered))

GetDataForClusteringCall ==
    \E ignore_z \in BOOLEAN :
        Read("getDataForClustering", [ignore_z |-> ignore_z],
             Return(getDataForClustering(hasTracks, groups, ignore_z)))

\* Clustering a file and describing the clustering.
Next ==
    \/ AddClustersCall
    \/ SetClusteringInfoCall
    \/ GetClusteringInfoCall
    \/ GetNClustersCall
    \/ HasClustersCall

Spec == Init /\ [][Next]_vars

\* Clustering a file and reading the clusters back one by one.
NextJoin ==
    \/ AddClustersCall
    \/ GetDataForClusteringCall
    \/ GetClusterGroupCall
    \/ GetClusterDataCall

SpecJoin == Init /\ [][NextJoin]_vars

\* Clustering a file and iterating over the clusters.
NextIter ==
    \/ AddClustersCall
    \/ ClustersIteratorCall

SpecIter == Init /\ [][NextIter]_vars

(***************************************************************************)
(* Properties.                                                             *)
(***************************************************************************)
Completed(name) == op = name /\ raised = NoError

ClusterGroups == hdf5["clusters"].groups

ClusterAttrs == hdf5["clusters"].attrs

\* The last addClusters call went through: the count is stored.
Partitioned == hasClusters(hdf5) /\ "n_clusters" \in DOMAIN ClusterAttrs

DistinctIds(a) == {a[p] : p \in DOMAIN a}

\* The j-th smallest (from 0) of the ids of a.
NthId(a, j) ==
    CHOOSE d \in DistinctIds(a) : Cardinality({e \in DistinctIds(a) : e < d}) = j

Members(a, d) == {p \in DOMAIN a : a[p] = d}

\* The i-th smallest (from 1) of a set of positions.
NthPos(S, i) == CHOOSE p \in S : Cardinality({q \in S : q < p}) = i - 1

\* Record p of the call's arguments, and member i of a stored group, as
\* mappings from field names to values.
ArgRow(b, p) == [f \in DictKeys(b) |-> DictGet(b, f)[p]]

GroupRow(g, i) == [f \in DOMAIN g.datasets |-> g.datasets[f][i]]

GroupMembers == {<<n, i>> \in (DOMAIN ClusterGroups) \X (1..(MaxRecords + 1)) :
                    i <= ClusterGroups[n].attrs["cl_size"]}

\* C1. Round trip: after addClusters(a, b) went through, the members of all
\* the groups together (cl_0 included) are the records of a, each one once:
\* every group holds one value per member and field, every member is a
\* record of the arguments, and every record occurs among the members as
\* often as among the arguments (once, where the fields tell records apart).
C1_RoundTrip ==
    Completed("addClusters") =>
        LET a == args.cluster_id
            b == args.cluster_data
        IN /\ \A n \in DOMAIN ClusterGroups :
                /\ DOMAIN ClusterGroups[n].datasets = DictKeys(b)
                /\ \A f \in DictKeys(b) :
                      Len(ClusterGroups[n].datasets[f]) = ClusterGroups[n].attrs["cl_size"]
           /\ Cardinality(GroupMembers) = Len(a)
           /\ \A m \in GroupMembers :
                \E p \in DOMAIN a : GroupRow(ClusterGroups[m[1]], m[2]) = ArgRow(b, p)
           /\ \A p \in DOMAIN a :
                Cardinality({m \in GroupMembers :
                                GroupRow(ClusterGroups[m[1]], m[2]) = ArgRow(b, p)})
                    = Cardinality({q \in DOMAIN a : ArgRow(b, q) = ArgRow(b, p)})

\* Two records with different ids and fields that tell them apart.
C1_Witness ==
    /\ Completed("addClusters")
    /\ Len(args.cluster_id) = 2
    /\ Cardinality(DistinctIds(args.cluster_id)) = 2
    /\ "loc_id" \in DictKeys(args.cluster_data)
    /\ Cardinality(GroupMembers) = 2

\* C4. Count: whenever a completed addClusters has stored it, the count is
\* the number of stored groups less the group cl_0, getNClusters returns
\* it, and right after addClusters(a, b) it is the number of distinct ids
\* of a less one.
C4_Count ==
    /\ Partitioned =>
          ClusterAttrs["n_clusters"] = Cardinality(DOMAIN ClusterGroups) - 1
    /\ Completed("addClusters") =>
          getNClusters(hdf5) = Return(Cardinality(DistinctIds(args.cluster_id)) - 1)
    /\ Completed("getNClusters") => ret = Cardinality(DOMAIN ClusterGroups) - 1

\* Several records sharing one id: the count is 0.
C4_Witness ==
    /\ Completed("addClusters")
    /\ Len(args.cluster_id) >= 2
    /\ Cardinality(DistinctIds(args.cluster_id)) = 1
    /\ getNClusters(hdf5) = Return(0)

\* C6. Repartition: the file after addClusters(a, b) went through is the
\* file addClusters(a, b) leaves on a file without clusters, whatever was
\* stored before (nothing of it survives), and calling addClusters(a, b)
\* once more leaves it as it is.
C6_Idempotent ==
    Completed("addClusters") =>
        /\ hdf5 = addClusters(EmptyDict, args.cluster_id, args.cluster_data).hdf5
        /\ addClusters(hdf5, args.cluster_id, args.cluster_data).hdf5 = hdf5

\* A call that leaves a single group (the state a call with these arguments
\* reaches from files holding more groups, and again when it is repeated).
C6_Witness ==
    /\ Completed("addClusters")
    /\ Len(args.cluster_id) = 2
    /\ DOMAIN ClusterGroups = {getClusterName(0)}
    /\ DictKeys(args.cluster_data) # {}

\* Some field of b has a size other than a's.
Mismatch(a, b) == \E j \in DOMAIN b : Len(b[j].data) # Len(a)

\* C8 as claimed. A size mismatch fails before any mutation: the call
\* raises the assertion naming the field and leaves the file as it was.
C8_FailsFast ==
    [][(op' = "addClusters" /\ Mismatch(args'.cluster_id, args'.cluster_data)) =>
          /\ raised' = "AssertionError"
          /\ \E j \in DOMAIN args'.cluster_data :
                /\ Len(args'.cluster_data[j].data) # Len(args'.cluster_id)
                /\ ret' = "Incorrect size for data " \o args'.cluster_data[j].field
          /\ hdf5' = hdf5]_vars

\* C8 as amended. A size mismatch raises the assertion naming the first
\* field of the wrong size, after the clusters group was deleted and
\* created anew: the file holds an empty clusters group (no cluster
\* groups, no count, no info), whatever it held before.
C8_FailsAfterReset ==
    (op = "addClusters" /\ Mismatch(args.cluster_id, args.cluster_data)) =>
        /\ raised = "AssertionError"
        /\ \E j \in DOMAIN args.cluster_data :
              /\ Len(args.cluster_data[j].data) # Len(args.cluster_id)
              /\ \A k \in 1..(j - 1) : Len(args.cluster_data[k].data) = Len(args.cluster_id)
              /\ ret = "Incorrect size for data " \o args.cluster_data[j].field
        /\ hasClusters(hdf5)
        /\ ClusterGroups = EmptyDict
        /\ ClusterAttrs = EmptyDict

\* The third field is the first of the wrong size.
C8_Witness ==
    /\ op = "addClusters"
    /\ raised = "AssertionError"
    /\ ret = "Incorrect size for data x"
    /\ Len(args.cluster_id) = 2
    /\ hasClusters(hdf5)
    /\ ClusterGroups = EmptyDict

\* The stored description: <<>> when there is none.
InfoOf(h) ==
    IF hasClusters(h) /\ "info" \in DOMAIN h["clusters"].attrs
    THEN <<h["clusters"].attrs["info"]>>
    ELSE <<>>

\* C9 as claimed. The description is independent of the clusters:
\* setClusteringInfo goes through in every state and stores the text, no
\* other call changes the stored text, and getClusteringInfo returns it.
C9_InfoIndependent ==
    [][/\ op' = "setClusteringInfo" =>
             raised' = NoError /\ InfoOf(hdf5') = <<args'.info>>
       /\ op' # "setClusteringInfo" => InfoOf(hdf5') = InfoOf(hdf5)
       /\ (op' = "getClusteringInfo" /\ InfoOf(hdf5) # <<>>) =>
             raised' = NoError /\ ret' = InfoOf(hdf5)[1]]_vars

\* C9 as amended. The description lives in the clusters group:
\* setClusteringInfo stores the text when the group exists and raises
\* KeyError, changing nothing, when it does not; every addClusters call
\* removes the description; no other call changes it; getClusteringInfo
\* returns the stored text and raises KeyError when there is none.
C9_InfoInGroup ==
    [][/\ op' = "setClusteringInfo" =>
             IF hasClusters(hdf5)
             THEN /\ raised' = NoError
                  /\ InfoOf(hdf5') = <<args'.info>>
                  /\ hdf5'["clusters"].groups = hdf5["clusters"].groups
             ELSE raised' = "KeyError" /\ hdf5' = hdf5
       /\ op' = "addClusters" => InfoOf(hdf5') = <<>>
       /\ op' \notin {"setClusteringInfo", "addClusters"} => hdf5' = hdf5
       /\ op' = "getClusteringInfo" =>
             IF InfoOf(hdf5) = <<>>
             THEN raised' = "KeyError"
             ELSE raised' = NoError /\ ret' = InfoOf(hdf5)[1]]_vars

\* The description was set on a clustered file and read back.
C9_Witness ==
    /\ Completed("getClusteringInfo")
    /\ ret = "voronoi"
    /\ Partitioned
    /\ Cardinality(DOMAIN ClusterGroups) = 2

\* C10. Dense indices: after addClusters(a, b) went through, the groups are
\* cl_0 .. cl_(k-1) for the k distinct ids of a, and cl_j holds, for every
\* field of b, the values of the records whose id is the j-th smallest id
\* of a, in record order, with cl_size their number.
C10_DenseGroups ==
    Completed("addClusters") =>
        LET a == args.cluster_id
            b == args.cluster_data
            k == Cardinality(DistinctIds(a))
        IN /\ DOMAIN ClusterGroups = {getClusterName(j) : j \in 0..(k - 1)}
           /\ \A j \in 0..(k - 1) :
                LET g == ClusterGroups[getClusterName(j)]
                    S == Members(a, NthId(a, j))
                IN /\ g.attrs["cl_size"] = Cardinality(S)
                   /\ DOMAIN g.datasets = DictKeys(b)
                   /\ \A f \in DictKeys(b) :
                         g.datasets[f] =
                            [i \in 1..Cardinality(S) |-> DictGet(b, f)[NthPos(S, i)]]

\* The ids 1 and -1 with 0 unused: two groups, cl_0 holding the second
\* record (id -1) and cl_1 the first (id 1).
C10_Witness ==
    /\ Completed("addClusters")
    /\ args.cluster_id = <<1, -1>>
    /\ "x" \in DictKeys(args.cluster_data)
    /\ DOMAIN ClusterGroups = {getClusterName(0), getClusterName(1)}
    /\ ClusterGroups[getClusterName(0)].datasets["x"] = <<DictGet(args.cluster_data, "x")[2]>>
    /\ ClusterGroups[getClusterName(1)].datasets["x"] = <<DictGet(args.cluster_data, "x")[1]>>

\* The group getClusterData(index) reads exists.
Backed(index) == hasClusters(hdf5) /\ getClusterName(index) \in DOMAIN ClusterGroups

\* The join of getClusterData against the store, for the call just made on
\* an existing group whose cross-reference holds "frame" or "track_id":
\* every requested field (every requested field the group does not store
\* itself, when stored fields are set aside) is an array with one value per
\* member, the value at i that of the store's record at offset loc_id[i] of
\* frame frame[i] (of track group track_id[i]), and every stored field is
\* in the result as stored.
Joined(stored_aside) ==
    (op = "getClusterData" /\ Backed(args.index)) =>
        LET g == ClusterGroups[getClusterName(args.index)]
            key == IF "frame" \in DOMAIN g.datasets THEN "frame" ELSE "track_id"
            m == g.attrs["cl_size"]
            asked == IF stored_aside THEN FieldSet(args.fields) \ DOMAIN g.datasets
                     ELSE FieldSet(args.fields)
        IN key \in DOMAIN g.datasets =>
              /\ raised = NoError
              /\ DOMAIN ret = FieldSet(args.fields) \cup DOMAIN g.datasets
              /\ \A f \in asked :
                    /\ Len(ret[f]) = m
                    /\ \A i \in 1..m :
                          ret[f][i] =
                             groups[g.datasets[key][i] + 1][g.datasets["loc_id"][i] + 1][f]
              /\ \A c \in DOMAIN g.datasets : ret[c] = g.datasets[c]

\* C2 as claimed. getClusterData(k, fields) on an existing group returns
\* every requested field joined from the store, member by member, and the
\* stored cross-reference fields unchanged.
C2_Join == Joined(FALSE)

\* C2 as amended. The same for every requested field that is not also the
\* name of a field stored in the group; under such a name the result holds
\* the stored array, not the joined one.
C2_JoinAsideStored == Joined(TRUE)

\* Tracks of two track groups in one cluster that also stores "x": y is
\* joined from the store, x is the stored array.
C2_Witness ==
    /\ Completed("getClusterData")
    /\ hasTracks
    /\ Backed(args.index)
    /\ args.fields = AllFields
    /\ "x" \in DOMAIN ClusterGroups[getClusterName(args.index)].datasets
    /\ ClusterGroups[getClusterName(args.index)].datasets["track_id"] = <<0, 1>>
    /\ ret["y"] = <<41, 51>>
    /\ ret["x"] = <<1100, 2100>>

RECURSIVE Flatten(_)
Flatten(grps) == IF Len(grps) = 0 THEN <<>> ELSE Head(grps) \o Flatten(Tail(grps))

\* addClusters just went through on a localization file of at least one
\* localization, with the cluster_data of getDataForClustering and every
\* record given the id 1.
AllInClusterOne ==
    /\ Completed("addClusters")
    /\ ~hasTracks
    /\ Len(args.cluster_id) >= 1
    /\ \A p \in DOMAIN args.cluster_id : args.cluster_id[p] = 1
    /\ args.cluster_data = getDataForClustering(hasTracks, groups, TRUE)[5]

\* r holds the fields of all the localizations of the file, in store order
\* (the member order of the cross-reference), and the cross-reference.
AllRecords(r) ==
    LET all == Flatten(groups)
        d == getDataForClustering(hasTracks, groups, TRUE)[5]
    IN /\ DOMAIN r = StoreFields \cup {"frame", "loc_id"}
       /\ \A f \in StoreFields : r[f] = [p \in 1..Len(all) |-> all[p][f]]
       /\ r["frame"] = DictGet(d, "frame")
       /\ r["loc_id"] = DictGet(d, "loc_id")

\* C3 as claimed. With every localization assigned the id 1,
\* getClusterData(1) returns the fields of all of them.
C3_ClusterOne ==
    [][(AllInClusterOne /\ op' = "getClusterData" /\ args'.index = 1
            /\ args'.fields = AllFields) =>
          (raised' = NoError /\ AllRecords(ret'))]_vars

\* C3 as amended. With every localization assigned the id 1, the records
\* are in the group cl_0 (1 is the smallest id), and getClusterData(0)
\* returns the fields of all of them.
C3_GroupZero ==
    [][(AllInClusterOne /\ op' = "getClusterData" /\ args'.index = 0
            /\ args'.fields = AllFields) =>
          (raised' = NoError /\ AllRecords(ret'))]_vars

\* The two localizations of a file of two frames, read from cl_0, the only
\* group.
C3_Witness ==
    /\ Completed("getClusterData")
    /\ ~hasTracks
    /\ args.index = 0
    /\ args.fields = AllFields
    /\ Len(groups) = 2
    /\ Len(groups[1]) = 1
    /\ Partitioned
    /\ ClusterAttrs["n_clusters"] = 0
    /\ DOMAIN ClusterGroups[getClusterName(0)].datasets = {"frame", "loc_id"}
    /\ ret["frame"] = <<0, 1>>
    /\ AllRecords(ret)

C7_AbsentNoRaise ==
    /\ (op = "getClusterGroup" /\ ~Backed(args.index)) =>
          (raised = NoError /\ ret = <<>>)
    /\ (op = "getClusterData" /\ ~Backed(args.index)) =>
          (raised = NoError /\ ret = EmptyDict)

====
